---- MODULE Spec2Model ----
(***************************************************************************)
(* A model of rdtools: the run/step logger of rdtools/utils.py (class      *)
(* logger), the Alissa Interpret client of rdtools/alissa.py and the CSV   *)
(* import of rdtools/molgenis.py (class Molgenis).                         *)
(*                                                                         *)
(* Python dicts are objects: self.currentStep and an entry of              *)
(* self.processingStepLogs may be one and the same dict.  Every dict of    *)
(* the model carries its identity (oid, Python's id()); a write through    *)
(* one reference is seen through every reference to the same oid.  Dicts   *)
(* no attribute of the logger refers to any more are not kept.             *)
(***************************************************************************)
EXTENDS Integers, Sequences, FiniteSets, TLC

\* ------------------------------------------------------------------ bounds
MaxClock == 3      \* the clock stops advancing at this tick
MaxObjs == 6       \* dicts ever created on one logger, the two of __init__ included
TicksPerSec == 2   \* clock ticks per second: datetime is finer than '%S'
TicksPerDay == 3   \* clock ticks per calendar day
MaxImports == 3    \* import calls made on one Molgenis session

\* ------------------------------------------------------------------ values
\* Every Python value of the model is a record of the same shape, so that any
\* two can be compared: k is the Python type, n a number, s a sequence.
Val(k, n, s) == [k |-> k, n |-> n, s |-> s]
\* a key the dict does not have: reading it raises KeyError
Absent == Val("absent", 0, <<>>)
None == Val("None", 0, <<>>)
\* a timezone-aware datetime object, t in clock ticks
DateTime(t) == Val("datetime", t, <<>>)
\* (end - start).total_seconds(): a float, kept in ticks
Seconds(n) == Val("float", n, <<>>)
PyInt(n) == Val("int", n, <<>>)
List(s) == Val("list", 0, s)

\* strftime('%Y-%m-%dT%H:%M:%SZ'): the sub-second part is dropped
FormatSeconds(t) == Val("str:%Y-%m-%dT%H:%M:%SZ", t \div TicksPerSec, <<>>)
\* strftime('%Y-%m-%d')
FormatDate(t) == Val("str:%Y-%m-%d", t \div TicksPerDay, <<>>)
\* strftime('%Y%m%d') read as a number: eight digits, whatever the day
Ymd(t) == 20230101 + (t \div TicksPerDay)
\* ','.join(map(str, ids))
JoinButFirst(ids) == Val("str:joined", 0, IF ids = <<>> THEN ids ELSE Tail(ids))
Join(ids) == Val("str:joined", 0, ids)

RECURSIVE Digits(_)
Digits(n) == IF n < 10 THEN 1 ELSE 1 + Digits(n \div 10)

RECURSIVE Pow10(_)
Pow10(k) == IF k = 0 THEN 1 ELSE 10 * Pow10(k - 1)

\* int(f"{ymd}{stepID}"): decimal concatenation
StepIdentifier(ymd, stepID) == ymd * Pow10(Digits(stepID)) + stepID

\* the dict {} that __init__ binds, as the object oid
EmptyDict(oid) ==
  [oid |-> oid, identifier |-> Absent, date |-> Absent, startTime |-> Absent,
   endTime |-> Absent, elapsedTime |-> Absent, steps |-> Absent]

VARIABLES
  pytzBound,           \* does the global name pytz resolve inside rdtools.utils:
                       \* the module imports datetime and timezone only, so it
                       \* does not unless the importing program binds the name
  clock,               \* the wall clock, in ticks
  nextId,              \* dicts created so far
  log,                 \* self.log
  currentStep,         \* self.currentStep
  processingStepLogs,  \* self.processingStepLogs
  lastOp,              \* the last method called
  lastErr,             \* the exception it raised, or "none"
  done,                \* identifiers of the steps whose stopProcessingStepLog
                       \* returned since the last start() that returned
  client,              \* the Alissa object: "absent" until __init__ returned
  called,              \* the Alissa method called last
  sent,                \* the HTTP requests that call made through self.session
  response,            \* the response the upstream gave to the last of them
  result,              \* what the call gave its caller: a value or an exception
  imports,             \* import calls begun on the Molgenis session
  mpc,                 \* where the import call in progress stands, or "idle"
  mcall,               \* the import call: method, pkg_entity, its tmpdir
  dirs,                \* the temporary directories that exist
  files,               \* the files that exist in them
  posted,              \* the self._session.post calls of the import call
  mresult              \* what the import call gave its caller

lvars == <<pytzBound, clock, nextId, log, currentStep, processingStepLogs,
           lastOp, lastErr, done>>
avars == <<client, called, sent, response, result>>
mvars == <<imports, mpc, mcall, dirs, files, posted, mresult>>
vars == <<lvars, avars, mvars>>

\* no response yet, no result yet
NoResponse == [status |-> 0, json |-> FALSE]
NoResult == [kind |-> "none", status |-> 0]
\* no import call yet, and an import call that has not ended
NoCall == [method |-> "none", pkg_entity |-> "", dir |-> 0]
Pending == [kind |-> "none", status |-> 0, exc |-> "", stage |-> "", msg |-> ""]

\* logger.__init__: self.log = {}, self.currentStep = {}, processingStepLogs = []
\* The module as written leaves pytz unbound (pytzBound = FALSE); the other
\* value is the logger as it behaves once the name resolves.
Init ==
  /\ pytzBound \in BOOLEAN
  /\ clock = 0
  /\ nextId = 2
  /\ log = EmptyDict(1)
  /\ currentStep = EmptyDict(2)
  /\ processingStepLogs = <<>>
  /\ lastOp = "init"
  /\ lastErr = "none"
  /\ done = <<>>
  /\ client = "absent"
  /\ called = "none"
  /\ sent = <<>>
  /\ response = NoResponse
  /\ result = NoResult
  /\ imports = 0
  /\ mpc = "idle"
  /\ mcall = NoCall
  /\ dirs = {}
  /\ files = {}
  /\ posted = <<>>
  /\ mresult = Pending

\* the instants the successive _now() calls of one method may return: the
\* clock may advance while the method runs
Reads == {r \in clock..(clock + 1) : r <= MaxClock}

\* time passes between two calls
Tick ==
  /\ clock < MaxClock
  /\ clock' = clock + 1
  /\ UNCHANGED <<pytzBound, nextId, log, currentStep, processingStepLogs,
                 lastOp, lastErr, done>>
  /\ UNCHANGED avars
  /\ UNCHANGED mvars

\* _now evaluates pytz.timezone(...): NameError when pytz is not bound.  The
\* first _now() of every method comes before its first assignment.
RaiseNameError(op) ==
  /\ ~pytzBound
  /\ lastOp' = op
  /\ lastErr' = "NameError"
  /\ UNCHANGED <<pytzBound, clock, nextId, log, currentStep, processingStepLogs, done>>
  /\ UNCHANGED avars
  /\ UNCHANGED mvars

\* __stoptime__ without the TypeError of datetime - str
StopTimeUntyped(d, t) ==
  LET d1 == [d EXCEPT !.endTime = DateTime(t)]
      d2 == [d1 EXCEPT !.elapsedTime = Seconds(t - d.startTime.n),
                       !.endTime = FormatSeconds(t),
                       !.startTime = FormatSeconds(d.startTime.n)]
  IN  IF d.startTime.k = "absent" THEN [dict |-> d1, err |-> "KeyError"]
      ELSE [dict |-> d2, err |-> "none"]

\* logger.__stoptime__ on the dict d, _now() returning t: the dict as it
\* leaves it and the exception it raises
StopTime(d, t) ==
  LET d1 == [d EXCEPT !.endTime = DateTime(t)]
      d2 == [d1 EXCEPT !.elapsedTime = Seconds(t - d.startTime.n),
                       !.endTime = FormatSeconds(t),
                       !.startTime = FormatSeconds(d.startTime.n)]
  IN  IF d.startTime.k = "absent" THEN [dict |-> d1, err |-> "KeyError"]
      ELSE IF d.startTime.k # "datetime" THEN [dict |-> d1, err |-> "TypeError"]
      ELSE [dict |-> d2, err |-> "none"]

\* a counter scoped to the run: one more than the steps the run record lists
StepIDPerRun(logs) == IF log.steps.k = "list" THEN Len(log.steps.s) + 1 ELSE 1

\* stepID = len(self.processingStepLogs) + 1
StepIDFirstFree(logs) == Len(logs)
StepID(logs) == Len(logs) + 1

\* self.log['steps'].append(identifier)
AppendStepOnly(steps, id) == List(<<id>>)
AppendStep(steps, id) == List(Append(steps.s, id))

\* the list h after the dict d was written to: the entries that are d itself
\* show the write
Written(h, d) == [i \in DOMAIN h |-> IF h[i].oid = d.oid THEN d ELSE h[i]]

\* logger.start
start ==
  \/ RaiseNameError("start")
  \/ /\ pytzBound
     /\ nextId < MaxObjs
     /\ nextId' = nextId + 1
     /\ \E r1 \in Reads, r2 \in Reads, r3 \in Reads :
          /\ r1 <= r2 /\ r2 <= r3
          /\ clock' = r3
          /\ log' = [oid |-> nextId + 1,
                     identifier |-> FormatDate(r1), date |-> FormatDate(r2),
                     startTime |-> DateTime(r3), endTime |-> None,
                     elapsedTime |-> None, steps |-> List(<<>>)]
     /\ lastOp' = "start"
     /\ lastErr' = "none"
     /\ done' = <<>>
     /\ UNCHANGED <<pytzBound, currentStep, processingStepLogs>>
     /\ UNCHANGED avars
     /\ UNCHANGED mvars
  /\ UNCHANGED mvars

\* logger.stop
stop ==
  \/ RaiseNameError("stop")
  \/ /\ pytzBound
     /\ \E t \in Reads :
          LET st == StopTime(log, t)
          IN  /\ clock' = t
              /\ lastErr' = st.err
              /\ log' = IF st.err = "none"
                        THEN [st.dict EXCEPT !.steps = Join(@.s)]
                        ELSE st.dict
     /\ lastOp' = "stop"
     /\ UNCHANGED <<pytzBound, nextId, currentStep, processingStepLogs, done>>
     /\ UNCHANGED avars
     /\ UNCHANGED mvars
  /\ UNCHANGED mvars

\* logger.startProcessingStepLog
startProcessingStepLog ==
  \/ RaiseNameError("startProcessingStepLog")
  \/ /\ pytzBound
     /\ nextId < MaxObjs
     /\ nextId' = nextId + 1
     /\ LET stepID == StepID(processingStepLogs)
        IN  \E r1 \in Reads, r2 \in Reads, r3 \in Reads :
              /\ r1 <= r2 /\ r2 <= r3
              /\ clock' = r3
              /\ currentStep' =
                   [oid |-> nextId + 1,
                    identifier |-> PyInt(StepIdentifier(Ymd(r1), stepID)),
                    date |-> FormatDate(r2),
                    startTime |-> DateTime(r3), endTime |-> None,
                    elapsedTime |-> None, steps |-> Absent]
     /\ lastOp' = "startProcessingStepLog"
     /\ lastErr' = "none"
     /\ UNCHANGED <<pytzBound, log, processingStepLogs, done>>
     /\ UNCHANGED avars
     /\ UNCHANGED mvars
  /\ UNCHANGED mvars

\* logger.stopProcessingStepLog
stopProcessingStepLog ==
  \/ RaiseNameError("stopProcessingStepLog")
  \/ /\ pytzBound
     /\ \E t \in Reads :
          LET st == StopTime(currentStep, t)
              err == IF st.err # "none" THEN st.err
                     ELSE IF log.steps.k = "absent" THEN "KeyError"
                     ELSE IF log.steps.k # "list" THEN "AttributeError"
                     ELSE "none"
          IN  /\ clock' = t
              /\ lastErr' = err
              /\ currentStep' = st.dict
              /\ IF err = "none"
                 THEN /\ log' = [log EXCEPT
                                   !.steps = AppendStep(@, st.dict.identifier.n)]
                      /\ processingStepLogs' =
                           Append(Written(processingStepLogs, st.dict), st.dict)
                      /\ done' = Append(done, st.dict.identifier.n)
                 ELSE /\ processingStepLogs' = Written(processingStepLogs, st.dict)
                      /\ UNCHANGED <<log, done>>
     /\ lastOp' = "stopProcessingStepLog"
     /\ UNCHANGED <<pytzBound, nextId>>
     /\ UNCHANGED avars
     /\ UNCHANGED mvars
  /\ UNCHANGED mvars

Next ==
  \/ Tick
  \/ start
  \/ stop
  \/ startProcessingStepLog
  \/ stopProcessingStepLog

Spec == Init /\ [][Next]_vars

\* ------------------------------------------------------- the Alissa client
\* the status codes and bodies the upstream may answer with
Statuses == {200, 201, 304, 404, 500}
PatientIds == {"p1", "p2"}
AnalysisIds == {"42"}
ExportIds == {"abc123"}
\* the optional filters of getPatients (two of the eight)
Filters == {"accessionNumber", "createdBy"}

\* response.raise_for_status() of requests: HTTPError for 4xx and 5xx only
RaiseFor5xxOnly(status) == 500 <= status /\ status < 600
RaiseForStatus(status) == 400 <= status /\ status < 600

\* Alissa._formatOptionalParams: the keys whose value is not None; given is
\* the set of filters the caller passed a value for
FormatOptionalParams(given) == {key \in Filters : key \in given}

\* one request through self.session and what the method makes of the answer:
\* response.raise_for_status(), then response.json()
Request(method, verb, endpoint, params, json) ==
  /\ client = "ready"
  /\ \E status \in Statuses, isJson \in BOOLEAN :
       /\ response' = [status |-> status, json |-> isJson]
       /\ result' = IF RaiseForStatus(status)
                    THEN [kind |-> "HTTPError", status |-> status]
                    ELSE IF isJson THEN [kind |-> "json", status |-> status]
                    ELSE [kind |-> "JSONDecodeError", status |-> status]
  /\ sent' = <<[verb |-> verb, endpoint |-> endpoint, params |-> params,
                json |-> json]>>
  /\ called' = method
  /\ UNCHANGED client
  /\ UNCHANGED lvars
  /\ UNCHANGED mvars

\* Alissa.__init__: fetch_token raises, or the client exists
Connect ==
  /\ \E granted \in BOOLEAN :
       /\ client' = IF granted THEN "ready" ELSE "absent"
       /\ result' = IF granted THEN NoResult
                    ELSE [kind |-> "AuthenticationError", status |-> 0]
  /\ called' = "__init__"
  /\ sent' = <<>>
  /\ response' = NoResponse
  /\ UNCHANGED lvars
  /\ UNCHANGED mvars

\* Alissa.getPatientByInternalId
getPatientByInternalId ==
  \E patientId \in PatientIds :
    Request("getPatientByInternalId", "GET", <<"patients", patientId>>, {}, <<>>)

\* Alissa.getPatients
getPatients ==
  \E given \in SUBSET Filters :
    Request("getPatients", "GET", <<"patients">>, FormatOptionalParams(given), <<>>)

\* Alissa.getPatientAnalyses
getPatientAnalyses ==
  \E patientId \in PatientIds :
    Request("getPatientAnalyses", "GET", <<"patients", patientId, "analyses">>,
            {}, <<>>)

\* Alissa.getPatientVariantExportId
getPatientVariantExportId ==
  \E analysisId \in AnalysisIds, markedForReview \in BOOLEAN,
     markedIncludeInReport \in BOOLEAN :
    Request("getPatientVariantExportId", "POST",
            <<"patient_analyses", analysisId, "molecular_variants", "exports">>,
            {}, <<markedForReview, markedIncludeInReport>>)

\* Alissa.getPatientVariantExportData
getPatientVariantExportData ==
  \E analysisId \in AnalysisIds, exportId \in ExportIds :
    Request("getPatientVariantExportData", "GET",
            <<"patient_analyses", analysisId, "molecular_variants", "exports",
              exportId>>, {}, <<>>)

NextAlissa ==
  \/ Connect
  \/ getPatientByInternalId
  \/ getPatients
  \/ getPatientAnalyses
  \/ getPatientVariantExportId
  \/ getPatientVariantExportData

SpecAlissa == Init /\ [][NextAlissa]_vars

\* ------------------------------------------------------- the CSV import
\* table identifiers (pkg_entity, in emx format: package_entity)
Entities == {"pkg_a", "pkg_b"}

\* self.fileImportEndpoint, set by Molgenis.__init__, and the fixed import
\* parameters of the post
FileImportEndpoint == "plugin/importwizard/importFile"
ImportParams == [action |-> "add_update_existing", metadataAction |-> "ignore"]

\* the attributes Molgenis.__init__ sets on the session
Attributes == {"fileImportEndpoint"}

\* f"{tmpdir}/{pkg_entity}.csv"
FilePath(dir, pkg_entity) == [dir |-> dir, name |-> pkg_entity]

\* leaving `with tempfile.TemporaryDirectory()`: the directory and what is in
\* it are removed, whether the block returned or raised
ExitFilesOnReturn(fs, dir, raised) ==
  IF raised THEN fs ELSE {f \in fs : f.dir # dir}
ExitFiles(fs, dir, raised) == {f \in fs : f.dir # dir}
ExitDirs(ds, dir, raised) == ds \ {dir}

\* the import call ends with res: the with block is left
Leave(res) ==
  /\ mresult' = res
  /\ mpc' = "idle"
  /\ files' = ExitFiles(files, mcall.dir, res.kind = "exception")
  /\ dirs' = ExitDirs(dirs, mcall.dir, res.kind = "exception")

Raised(exc, stage) ==
  [kind |-> "exception", status |-> 0, exc |-> exc, stage |-> stage, msg |-> ""]

\* the with block is entered: tempfile.TemporaryDirectory() makes a new directory
Enter(method, pkg_entity) ==
  /\ mpc = "idle"
  /\ imports < MaxImports
  /\ imports' = imports + 1
  /\ mcall' = [method |-> method, pkg_entity |-> pkg_entity, dir |-> imports + 1]
  /\ dirs' = dirs \cup {imports + 1}
  /\ mpc' = "tmpdir"
  /\ posted' = <<>>
  /\ mresult' = Pending
  /\ UNCHANGED files
  /\ UNCHANGED <<lvars, avars>>

\* Molgenis.importDatatableAsCsv is called
importDatatableAsCsv == \E pkg_entity \in Entities :
  Enter("importDatatableAsCsv", pkg_entity)

\* Molgenis.importPandasAsCsv is called
importPandasAsCsv == \E pkg_entity \in Entities :
  Enter("importPandasAsCsv", pkg_entity)

\* Molgenis._datatableToCsv / Molgenis._dfToCsv: the CSV is written, or to_csv
\* raises, with or without a file left behind
toCsv ==
  /\ mpc = "tmpdir"
  /\ \/ /\ files' = files \cup {FilePath(mcall.dir, mcall.pkg_entity)}
        /\ mpc' = "written"
        /\ UNCHANGED <<dirs, mresult>>
     \/ \E partial \in BOOLEAN :
          LET fs == IF partial
                    THEN files \cup {FilePath(mcall.dir, mcall.pkg_entity)}
                    ELSE files
              res == Raised("OSError", "write")
          IN  /\ mresult' = res
              /\ mpc' = "idle"
              /\ files' = ExitFiles(fs, mcall.dir, TRUE)
              /\ dirs' = ExitDirs(dirs, mcall.dir, TRUE)
  /\ UNCHANGED <<imports, mcall, posted>>
  /\ UNCHANGED <<lvars, avars>>

\* open(path.abspath(filepath), 'r')
openCsv ==
  /\ mpc = "written"
  /\ \/ /\ mpc' = "open"
        /\ UNCHANGED <<dirs, files, mresult>>
     \/ Leave(Raised("OSError", "open"))
  /\ UNCHANGED <<imports, mcall, posted>>
  /\ UNCHANGED <<lvars, avars>>

\* the url argument of the post: self.fileImportEndpoint in
\* importDatatableAsCsv, self.fileImportApi in importPandasAsCsv
UrlAttribute(method) ==
  IF method = "importDatatableAsCsv" THEN "fileImportEndpoint" ELSE "fileImportApi"

\* self._session.post(...), the message and `return response`
postCsv ==
  /\ mpc = "open"
  /\ IF UrlAttribute(mcall.method) \notin Attributes
     THEN /\ Leave(Raised("AttributeError", "post"))
          /\ UNCHANGED posted
     ELSE /\ posted' = <<[url |-> FileImportEndpoint,
                          file |-> FilePath(mcall.dir, mcall.pkg_entity),
                          params |-> ImportParams]>>
          /\ \/ Leave(Raised("ConnectionError", "post"))
             \/ \E status \in Statuses :
                  Leave([kind |-> "response", status |-> status, exc |-> "",
                         stage |-> "return",
                         msg |-> IF (status \div 100) # 2
                                 THEN "Failed to import data into"
                                 ELSE "Imported data into"])
  /\ UNCHANGED <<imports, mcall>>
  /\ UNCHANGED <<lvars, avars>>

NextImport ==
  \/ importDatatableAsCsv
  \/ importPandasAsCsv
  \/ toCsv
  \/ openCsv
  \/ postCsv

SpecImport == Init /\ [][NextImport]_vars

\* ------------------------------------------------------------ the logger
\* a dict that start() built
IsRun(d) == d.steps.k # "absent"
\* a run is in progress: self.log was started and not stopped
RunInProgress == log.startTime.k = "datetime"
\* a step is in progress: self.currentStep was started and not stopped
StepInProgress == currentStep.startTime.k = "datetime"

\* the sequence counter of a step identifier: the digits after the eight of
\* the date
RECURSIVE CounterFrom(_, _)
CounterFrom(id, k) ==
  IF id \div Pow10(k) < 100000000 THEN id % Pow10(k) ELSE CounterFrom(id, k + 1)
Counter(id) == CounterFrom(id, 1)

TypeOK ==
  /\ nextId \in 2..MaxObjs
  /\ clock \in 0..MaxClock
  /\ Len(processingStepLogs) <= MaxObjs

\* C1 to C3 and C6 are stated for a logger whose _now() works (pytzBound):
\* where it does not, every call raises NameError before it looks at the state.

C7_StartSucceeds ==
  [][(~RunInProgress /\ start)
       => /\ lastErr' = "none"
          /\ RunInProgress'
          /\ log'.startTime = DateTime(clock')
          /\ log'.endTime = None
          /\ log'.elapsedTime = None
          /\ log'.steps = List(<<>>)]_vars

Queried == called \notin {"none", "__init__"}

Finished == mpc = "idle" /\ mcall.method # "none"

\* C11: an import call of either form that gets as far as the post sends the
\* CSV to the fixed import endpoint and, unless the connection itself fails,
\* returns the upstream's response whatever its status: it raises no error of
\* its own.
C11_ImportReturnsRawResponse ==
  (Finished /\ mresult.stage \in {"post", "return"})
    => /\ Len(posted) = 1
       /\ posted[1].url = FileImportEndpoint
       /\ mresult.kind = "exception" => mresult.exc = "ConnectionError"

\* C12: when an import call has ended, by a return or by an exception raised
\* while writing, opening or posting the CSV, the temporary file and directory
\* of the call do not exist.
C12_TempFileRemoved ==
  Finished =>
    /\ FilePath(mcall.dir, mcall.pkg_entity) \notin files
    /\ mcall.dir \notin dirs
    /\ files = {} /\ dirs = {}

\* an import call wrote and opened its CSV and ended with an exception raised
\* by the post
C12_Witness ==
  /\ Finished
  /\ mresult.kind = "exception" /\ mresult.stage = "post"
  /\ mresult.exc = "ConnectionError"
  /\ Len(posted) = 1
  /\ posted[1].file = FilePath(mcall.dir, mcall.pkg_entity)
====
